---------------------------- MODULE Spec2Model ----------------------------
(***************************************************************************)
(* State-machine model of the pedestrian crowd simulator                   *)
(* (src/src/simulation/simulator.rs, src/src/simulation/pedestrian.rs).    *)
(*                                                                         *)
(* The program computes in f64.  The model computes in fixed point:        *)
(*   lengths   millimetres          (1 m      = 1000)                      *)
(*   times     milliseconds         (1 s      = 1000)                      *)
(*   speeds    millimetres/second   (1 m/s    = 1000)                      *)
(*   angles    1/10000 radian       (PI       = 31416, TAU = 2 * PI)       *)
(*   factors   thousandths          (1.0      = 1000)                      *)
(* f64 NaN is the distinguished value NaN; an absent Option is <<>> and    *)
(* Some(v) is <<v>>.                                                       *)
(***************************************************************************)
EXTENDS Integers, Sequences, FiniteSets, TLC

VARIABLES
    area,                   \* CrowdSim.area: the shared SimArea
    time_elapsed,           \* CrowdSim.time_elapsed (ms)
    available_pedestrians,  \* CrowdSim.available_pedestrians: Seq(Walker)
    active_pedestrians,     \* CrowdSim.active_pedestrians: Seq(Walker)
    finished_pedestrians,   \* CrowdSim.finished_pedestrians: Seq(Walker)
    pedestrian_add_rate,    \* CrowdSim.pedestrian_add_rate (agents per 1000 s)
    travel_times,           \* CrowdSim.travel_times: Seq(<<time, group, finish>>)
    full,                   \* position of a simulate_full call: <<>> or <<dt>>
    returned,               \* what the last simulate_full call returned: <<>> or <<r>>
    enqueued,               \* history: number of add_pedestrian calls so far
    last                    \* history: what the last operation did

vars == <<area, time_elapsed, available_pedestrians, active_pedestrians,
          finished_pedestrians, pedestrian_add_rate, travel_times, full,
          returned, enqueued, last>>

(***************************************************************************)
(* Program constants.                                                      *)
(***************************************************************************)
PI == 31416
TAU == 2 * PI
TARGET_LOCATION_RADIUS == 1500
PEDESTRIAN_ACCEL == 800
PEDESTRIAN_DIRECTION_CHANGE_FACTOR == 1000
PEDESTRIAN_RADIUS == 205
PEDESTRIAN_PSPACE_RADIUS == 856
PEDESTRIAN_LOOK_AHEAD_RADIUS == 2000
PEDESTRIAN_LOOK_BESIDE_RADIUS == 1200
PEDESTRIAN_LOOK_AHEAD_FOV == PI \div 2
PEDESTRIAN_LOOK_BESIDE_FOV == PI \div 2
PEDESTRIAN_OPPOSING_REPULSION == 250
PEDESTRIAN_PSPACE_REPULSION == 300
PEDESTRIAN_OPPOSING_DECEL == (PEDESTRIAN_ACCEL * 3) \div 2
WALL_REPULSION == 200
PEDESTRIAN_SPEED_NOISE_FACTOR == 800
PEDESTRIAN_DIRECTION_NOISE_FACTOR == 400
PEDESTRIAN_ETIQUETTE_BIAS_FACTOR == 250
Etiquette == {"LeftBias", "RightBias", "NoBias"}

\* f64::NAN, outside the range of every length, speed and angle of the model.
NaN == 0 - 99999999

None == <<>>
Some(v) == <<v>>
is_some(o) == o # <<>>
unwrap(o) == o[1]

(***************************************************************************)
(* f64 arithmetic in fixed point.                                          *)
(***************************************************************************)
Abs(a) == IF a < 0 THEN 0 - a ELSE a
Min(a, b) == IF a < b THEN a ELSE b
Max(a, b) == IF a > b THEN a ELSE b

\* a / b rounded toward zero (b > 0).
Div(a, b) == IF a >= 0 THEN a \div b ELSE 0 - ((0 - a) \div b)

\* The % of f64: the result has the sign of the dividend (b > 0).
Rem(a, b) == IF a >= 0 THEN a % b ELSE 0 - ((0 - a) % b)

\* a * b / 1000 without overflow of the intermediate product.
MulK(a, b) == a * Div(b, 1000) + Div(a * Rem(b, 1000), 1000)

RECURSIVE SqrtIter(_, _, _)
SqrtIter(v, lo, hi) ==
    IF lo >= hi THEN lo
    ELSE LET mid == (lo + hi + 1) \div 2
         IN  IF mid * mid <= v THEN SqrtIter(v, mid, hi)
             ELSE SqrtIter(v, lo, mid - 1)

\* f64::sqrt, rounded down to a whole millimetre (v < 46340^2).
Sqrt(v) == SqrtIter(v, 0, IF v < 65536 THEN 255
                          ELSE IF v < 16777216 THEN 4095 ELSE 46340)

\* f64::cos and f64::sin in 1/10000, by Bhaskara's rational approximation
\* (exact at the multiples of PI/2; error below 0.002).
CosHalf(a) ==
    LET num == PI * PI - 4 * a * a
        den == PI * PI + a * a
    IN  Div(Div(num, 10000) * 10000, Div(den, 10000))

Cos(a) ==
    LET r == ((a % TAU) + TAU) % TAU
    IN  IF r <= PI \div 2 THEN CosHalf(r)
        ELSE IF r <= 3 * (PI \div 2) THEN 0 - CosHalf(r - PI)
        ELSE CosHalf(r - TAU)

Sin(a) == Cos(a - PI \div 2)

\* atan of a ratio z in [0, 1] given in 1/10000, result in [0, PI/4]:
\* z * (PI/4 + (1 - z) * (0.2447 + 0.0663 z)), exact at z = 0 and z = 1.
AtanUnit(z) ==
    LET c == 2447 + Div(663 * z, 10000)
        b == Div((10000 - z) * c, 10000)
    IN  Div(z * (PI \div 4 + b), 10000)

\* f64::atan2(y, x), result in (-PI, PI]; atan2(0, 0) is 0.
Atan2(y, x) ==
    LET ax == Abs(x)
        ay == Abs(y)
        first == IF ax = 0 /\ ay = 0 THEN 0
                 ELSE IF ay <= ax THEN AtanUnit(Div(ay * 10000, ax))
                 ELSE PI \div 2 - AtanUnit(Div(ax * 10000, ay))
        upper == IF x >= 0 THEN first ELSE PI - first
    IN  IF y >= 0 THEN upper ELSE 0 - upper

\* nudge_angle: move initial_angle toward target_angle by the fraction
\* nudge_ratio (thousandths) of their difference.  nudge_ratio is a Some of
\* a finite value, or None for a non-finite one (inf or NaN).
nudge_angle(initial_angle, target_angle, nudge_ratio) ==
    IF initial_angle = NaN \/ target_angle = NaN \/ ~is_some(nudge_ratio) THEN NaN
    ELSE LET angle_diff == Rem(initial_angle - target_angle + TAU + PI, TAU) - PI
         IN  Rem(initial_angle - MulK(angle_diff, unwrap(nudge_ratio)) + TAU, TAU)


\* f64 comparisons and sums: a comparison with NaN is false, a sum with NaN is NaN.
Lt(a, b) == a # NaN /\ b # NaN /\ a < b
Le(a, b) == a # NaN /\ b # NaN /\ a <= b
Gt(a, b) == Lt(b, a)
Ge(a, b) == Le(b, a)
FAdd(a, b) == IF a = NaN \/ b = NaN THEN NaN ELSE a + b
FSub(a, b) == IF a = NaN \/ b = NaN THEN NaN ELSE a - b

\* factor (thousandths of rad/s or of 1/s applied to an angle) times
\* time_scale (ms), as an angle in 1/10000 rad.
AngleStep(factor, time_scale) == Div(factor * time_scale, 100)

(***************************************************************************)
(* Wall::get_normal_vector.  A wall is [x1, y1, x2, y2]; p is <<x, y>>.    *)
(* The result is [dist2, normal]: dist2 is the exact square of the         *)
(* distance and normal the vector from the closest point to p; Dist gives  *)
(* the distance itself, rounded down to a millimetre (dist < c is decided  *)
(* by either, dist <= c by dist2).                                         *)
(* lambda <= 0 and lambda >= 1 are decided on the scalar projection        *)
(* dot(ap, ab) / dot(ab, ab) without dividing.                             *)
(***************************************************************************)
NaNResult == [dist2 |-> NaN, normal |-> <<NaN, NaN>>]

Dist(r) == IF r.dist2 = NaN THEN NaN ELSE Sqrt(r.dist2)

\* Variant of ClosestPoint: the projection onto the line through the wall,
\* also beyond its ends.
ClosestPointOnLine(wall, p) ==
    LET ab == <<wall.x2 - wall.x1, wall.y2 - wall.y1>>
        dot_ap_ab == (p[1] - wall.x1) * ab[1] + (p[2] - wall.y1) * ab[2]
        dot_ab_ab == ab[1] * ab[1] + ab[2] * ab[2]
        g == Max(Abs(ab[1]), Abs(ab[2]))
    IN  <<wall.x1 + Div(ab[1] * Div(dot_ap_ab, g), Div(dot_ab_ab, g)),
          wall.y1 + Div(ab[2] * Div(dot_ap_ab, g), Div(dot_ab_ab, g))>>

\* The point of the wall closest to p: an end of the wall when the
\* projection of p falls outside it.
ClosestPoint(wall, p) ==
    LET a == <<wall.x1, wall.y1>>
        b == <<wall.x2, wall.y2>>
        ap == <<p[1] - a[1], p[2] - a[2]>>
        ab == <<b[1] - a[1], b[2] - a[2]>>
        dot_ap_ab == ap[1] * ab[1] + ap[2] * ab[2]
        dot_ab_ab == ab[1] * ab[1] + ab[2] * ab[2]
        g == Max(Abs(ab[1]), Abs(ab[2]))
    IN  IF dot_ap_ab <= 0 THEN a
        ELSE IF dot_ap_ab >= dot_ab_ab THEN b
        ELSE <<a[1] + Div(ab[1] * Div(dot_ap_ab, g), Div(dot_ab_ab, g)),
               a[2] + Div(ab[2] * Div(dot_ap_ab, g), Div(dot_ab_ab, g))>>

\* The distance and the vector from closest_point to p.
NormalFrom(p, closest_point) ==
    LET dist_sq == (p[1] - closest_point[1]) * (p[1] - closest_point[1])
                   + (p[2] - closest_point[2]) * (p[2] - closest_point[2])
    IN  IF dist_sq = 0 THEN [dist2 |-> 0, normal |-> <<0, 0>>]
        ELSE [dist2 |-> dist_sq,
              normal |-> <<p[1] - closest_point[1], p[2] - closest_point[2]>>]

get_normal_vector(wall, p) ==
    IF p[1] = NaN \/ p[2] = NaN THEN NaNResult
    ELSE IF wall.x1 = wall.x2 /\ wall.y1 = wall.y2
    THEN NaNResult   \* dot(ab, ab) = 0, lambda = 0/0: every later value is NaN
    ELSE NormalFrom(p, ClosestPoint(wall, p))

(***************************************************************************)
(* Walker.                                                                 *)
(***************************************************************************)
\* Walker::get_dest_coords
get_dest_coords(w, env) == env.end_positions[w.group][w.target_location]

\* Variant of ArcClone: the walker is handed an environment of its own, the
\* timing gates left out.
ArcCloneWithoutGates(env) == [env EXCEPT !.timing_boundaries = <<>>]

\* self.area.clone(): another reference to the one SimArea of the run.
ArcClone(env) == env

\* Walker::new.  id is a history field: the position of the call among the
\* add_pedestrian calls.
WalkerNew(env, id, group, start, end, target_speed, etiquette) ==
    LET start_coords == env.start_positions[group][start]
        end_coords == env.end_positions[group][end]
    IN  [id |-> id,
         environment |-> env,
         x |-> start_coords[1],
         y |-> start_coords[2],
         facing_direction |->
             Rem(Atan2(end_coords[2] - start_coords[2],
                       end_coords[1] - start_coords[1]) + TAU, TAU),
         target_speed |-> target_speed,
         inst_speed |-> 0,
         group |-> group,
         target_location |-> end,
         timing_boundary_states |-> [i \in 1..Len(env.timing_boundaries) |-> FALSE],
         timing_boundary_elapsed |-> None,
         etiquette |-> etiquette]

\* The bearing from the walker to (tx, ty): atan2 of the difference.
Bearing(w, tx, ty) ==
    IF w.x = NaN \/ w.y = NaN \/ tx = NaN \/ ty = NaN THEN NaN
    ELSE Atan2(ty - w.y, tx - w.x)

\* The relative direction (abs_neighbour_angle - facing_direction + TAU + TAU) % TAU.
TravelRelAngle(abs_neighbour_angle, facing_direction) ==
    IF abs_neighbour_angle = NaN \/ facing_direction = NaN THEN NaN
    ELSE Rem(abs_neighbour_angle - facing_direction + TAU + TAU, TAU)

\* Variant of HitboxCollision: the overlap is measured against one body radius.
HitboxCollisionOneRadius(w, dist, abs_neighbour_angle) ==
    LET k == PEDESTRIAN_RADIUS - dist
    IN  IF Lt(dist, 2 * PEDESTRIAN_RADIUS)
        THEN [w EXCEPT !.x = @ - Div(Cos(abs_neighbour_angle) * k, 10000),
                       !.y = @ - Div(Sin(abs_neighbour_angle) * k, 10000),
                       !.facing_direction = abs_neighbour_angle + PI,
                       !.inst_speed = 0]
        ELSE w

\* react_to_neighbours, "Intersecting hitbox": move away from a neighbour at
\* distance dist in direction abs_neighbour_angle, face away from it and stop.
HitboxCollision(w, dist, abs_neighbour_angle) ==
    LET k == 2 * PEDESTRIAN_RADIUS - dist
    IN  IF Lt(dist, 2 * PEDESTRIAN_RADIUS)
        THEN [w EXCEPT !.x = @ - Div(Cos(abs_neighbour_angle) * k, 10000),
                       !.y = @ - Div(Sin(abs_neighbour_angle) * k, 10000),
                       !.facing_direction = abs_neighbour_angle + PI,
                       !.inst_speed = 0]
        ELSE w

\* react_to_neighbours, "Within view to the right" and "to the left": cancel
\* the etiquette bias.  Both tests use the travel_rel_angle computed before
\* either; a walker has one etiquette, so at most one of them acts.
CancelBias(w, time_scale, dist, abs_neighbour_angle) ==
    LET bias == AngleStep(PEDESTRIAN_ETIQUETTE_BIAS_FACTOR, time_scale)
        travel_rel_angle == TravelRelAngle(abs_neighbour_angle, w.facing_direction)
    IN  IF /\ Lt(dist, PEDESTRIAN_LOOK_BESIDE_RADIUS)
           /\ Gt(travel_rel_angle, PEDESTRIAN_LOOK_AHEAD_FOV \div 2)
           /\ Lt(travel_rel_angle,
                 PEDESTRIAN_LOOK_AHEAD_FOV \div 2 + PEDESTRIAN_LOOK_BESIDE_FOV)
           /\ w.etiquette = "RightBias"
        THEN [w EXCEPT !.facing_direction = FSub(@, bias)]
        ELSE IF /\ Lt(dist, PEDESTRIAN_LOOK_BESIDE_RADIUS)
                /\ Lt(travel_rel_angle, TAU - PEDESTRIAN_LOOK_AHEAD_FOV \div 2)
                /\ Gt(travel_rel_angle,
                      TAU - (PEDESTRIAN_LOOK_AHEAD_FOV \div 2 + PEDESTRIAN_LOOK_BESIDE_FOV))
                /\ w.etiquette = "LeftBias"
        THEN [w EXCEPT !.facing_direction = FAdd(@, bias)]
        ELSE w

\* Whether the neighbour is within view in front of w.
InFront(w, dist, abs_neighbour_angle) ==
    /\ Lt(dist, PEDESTRIAN_LOOK_AHEAD_RADIUS)
    /\ \/ Le(TravelRelAngle(abs_neighbour_angle, w.facing_direction),
             PEDESTRIAN_LOOK_AHEAD_FOV \div 2)
       \/ Ge(TravelRelAngle(abs_neighbour_angle, w.facing_direction),
             TAU - PEDESTRIAN_LOOK_AHEAD_FOV \div 2)

\* Whether w and a neighbour heading n_dir walk in opposite directions.
Oncoming(w, n_dir) ==
    /\ w.facing_direction # NaN /\ n_dir # NaN
    /\ Rem(w.facing_direction - n_dir + TAU, TAU) > PI \div 2
    /\ Rem(w.facing_direction - n_dir + TAU, TAU) < 3 * (PI \div 2)

\* react_to_neighbours, "Within view in front" for a neighbour that is in
\* front: steer away from an oncoming neighbour, slow down behind one walking
\* the same way.
AvoidAhead(w, time_scale, n_dir, abs_neighbour_angle) ==
    LET opposing == Some(MulK(PEDESTRIAN_OPPOSING_REPULSION, time_scale))
        half_accel == Div(MulK(PEDESTRIAN_ACCEL, time_scale), 2)
    IN  IF ~Oncoming(w, n_dir)
        THEN [w EXCEPT !.inst_speed = Max(0, @ - half_accel)]
        ELSE IF w.etiquette = "LeftBias"
        THEN [w EXCEPT !.facing_direction =
                  nudge_angle(@, Rem(abs_neighbour_angle - PI \div 2 + TAU, TAU), opposing)]
        ELSE IF w.etiquette = "RightBias"
        THEN [w EXCEPT !.facing_direction =
                  nudge_angle(@, Rem(abs_neighbour_angle + PI \div 2 + TAU, TAU), opposing)]
        ELSE [w EXCEPT !.inst_speed = @ - half_accel,
                       !.facing_direction =
                           nudge_angle(@, abs_neighbour_angle + PI, opposing)]

\* react_to_neighbours, "Within personal space as well": decelerate.
PersonalSpaceDecel(w, time_scale, dist) ==
    IF Lt(dist, PEDESTRIAN_RADIUS + PEDESTRIAN_PSPACE_RADIUS)
    THEN [w EXCEPT !.inst_speed =
              Max(0, @ - MulK(PEDESTRIAN_OPPOSING_DECEL, time_scale))]
    ELSE w

\* The whole block "Within view in front".
ReactInFront(w, time_scale, n_dir, dist, abs_neighbour_angle) ==
    IF InFront(w, dist, abs_neighbour_angle)
    THEN PersonalSpaceDecel(AvoidAhead(w, time_scale, n_dir, abs_neighbour_angle),
                            time_scale, dist)
    ELSE w

\* react_to_neighbours, "Within personal space": turn away from the neighbour
\* by PEDESTRIAN_PSPACE_REPULSION * time_scale / dist, not finite when dist = 0.
PersonalSpaceNudge(w, time_scale, dist, abs_neighbour_angle) ==
    LET ratio == IF dist = 0 THEN None
                 ELSE Some(Div(PEDESTRIAN_PSPACE_REPULSION * time_scale, dist))
    IN  IF Lt(dist, PEDESTRIAN_RADIUS + PEDESTRIAN_PSPACE_RADIUS)
        THEN [w EXCEPT !.facing_direction =
                  nudge_angle(@, abs_neighbour_angle + PI, ratio)]
        ELSE w

\* The body of the loop for a neighbour heading n_dir at distance dist in
\* direction abs_neighbour_angle, both taken before the walker moves.
ReactAtDistance(w, time_scale, n_dir, dist, abs_neighbour_angle) ==
    PersonalSpaceNudge(
        ReactInFront(
            CancelBias(HitboxCollision(w, dist, abs_neighbour_angle),
                       time_scale, dist, abs_neighbour_angle),
            time_scale, n_dir, dist, abs_neighbour_angle),
        time_scale, dist, abs_neighbour_angle)

\* The distance from w to (n_x, n_y), rounded down to a millimetre.
NeighbourDist(w, n_x, n_y) ==
    IF w.x = NaN \/ w.y = NaN \/ n_x = NaN \/ n_y = NaN THEN NaN
    ELSE Sqrt((w.x - n_x) * (w.x - n_x) + (w.y - n_y) * (w.y - n_y))

\* One iteration of the loop of Walker::react_to_neighbours: the reaction of
\* walker w to the snapshot entry n = <<n_x, n_y, n_dir>>.
ReactToNeighbour(w, time_scale, n) ==
    ReactAtDistance(w, time_scale, n[3], NeighbourDist(w, n[1], n[2]),
                    Bearing(w, n[1], n[2]))

\* Walker::react_to_neighbours: the loop over other_pedestrians, in order.
RECURSIVE react_to_neighbours(_, _, _)
react_to_neighbours(w, time_scale, other_pedestrians) ==
    IF other_pedestrians = <<>> THEN w
    ELSE react_to_neighbours(ReactToNeighbour(w, time_scale, Head(other_pedestrians)),
                             time_scale, Tail(other_pedestrians))

\* Walker::apply_noise.  noise = <<d, s>>: the two values 2.0 * random() - 1.0,
\* in thousandths, each in [-1000, 1000).
apply_noise(w, time_scale, noise) ==
    [w EXCEPT
       !.facing_direction =
           FAdd(@, AngleStep(MulK(noise[1], PEDESTRIAN_DIRECTION_NOISE_FACTOR), time_scale)),
       !.inst_speed =
           @ + MulK(MulK(noise[2], PEDESTRIAN_SPEED_NOISE_FACTOR), time_scale)]

\* Variant of PushOutFactor: the whole quotient.
PushOutFactorWhole(dist) == Div(PEDESTRIAN_RADIUS * 1000, dist)

\* k = PEDESTRIAN_RADIUS / dist - 1.0, in thousandths: the multiple of the
\* normal vector that moves the walker to the body radius.
PushOutFactor(dist) == Div(PEDESTRIAN_RADIUS * 1000, dist) - 1000

\* One iteration of the loop of Walker::resolve_wall_collisions for a wall at
\* distance dist > 0 (or NaN) with normal vector normal.
ResolveWall(w, env, time_scale, dist, normal) ==
    LET normal_angle == IF normal[1] = NaN THEN NaN ELSE Atan2(normal[2], normal[1])
        k == PushOutFactor(dist)
        moved == [w EXCEPT !.x = @ + MulK(normal[1], k),
                           !.y = @ + MulK(normal[2], k)]
        dest == get_dest_coords(w, env)
        target_angle == Bearing(moved, dest[1], dest[2])
        direction_difference ==
            IF target_angle = NaN \/ moved.facing_direction = NaN THEN NaN
            ELSE Rem(target_angle - moved.facing_direction + TAU + TAU, TAU)
        w1 == IF ~Lt(dist, PEDESTRIAN_RADIUS) THEN w
              ELSE IF Gt(direction_difference, PI \div 2)
                      /\ Lt(direction_difference, 3 * (PI \div 2))
              THEN [moved EXCEPT !.facing_direction = normal_angle]
              ELSE [moved EXCEPT !.facing_direction =
                        nudge_angle(@, normal_angle, Some(time_scale))]
    IN  IF Lt(dist, PEDESTRIAN_PSPACE_RADIUS)
        THEN [w1 EXCEPT !.facing_direction =
                  nudge_angle(@, normal_angle, Some(MulK(WALL_REPULSION, time_scale)))]
        ELSE w1

\* Walker::resolve_wall_collisions: the loop over the environment's boundaries
\* from wall number i on; a wall at distance 0 ends the whole function (return).
RECURSIVE ResolveWallsFrom(_, _, _, _)
\* Variant of ResolveWallStep: the edge case guards the push only, the
\* personal-space nudge still turns the walker.
ResolveWallStepNudging(w, env, time_scale, i, r) ==
    IF r.dist2 = 0
    THEN [w EXCEPT !.facing_direction =
              nudge_angle(@, 0, Some(MulK(WALL_REPULSION, time_scale)))]
    ELSE ResolveWallsFrom(ResolveWall(w, env, time_scale, Dist(r), r.normal),
                          env, time_scale, i + 1)

\* The iteration for wall i, r being its get_normal_vector.
ResolveWallStep(w, env, time_scale, i, r) ==
    IF r.dist2 = 0 THEN w
    ELSE ResolveWallsFrom(ResolveWall(w, env, time_scale, Dist(r), r.normal),
                          env, time_scale, i + 1)

ResolveWallsFrom(w, env, time_scale, i) ==
    IF i > Len(env.boundaries) THEN w
    ELSE ResolveWallStep(w, env, time_scale, i,
                         get_normal_vector(env.boundaries[i], <<w.x, w.y>>))

resolve_wall_collisions(w, env, time_scale) == ResolveWallsFrom(w, env, time_scale, 1)

(***************************************************************************)
(* Walker::check_timing_boundaries.  The result is [walker, travel_time]:  *)
(* the walker after the call and the Option the caller in                  *)
(* CrowdSim::simulate_timestep tests with is_some(): the timer's value at  *)
(* the place where the function reports a completed measurement            *)
(* (pedestrian.rs:401-404), None on every other path.                      *)
(***************************************************************************)
\* Variant of Touches: a gate at exactly the body radius is not marked.
TouchesInside(w, env, i) ==
    /\ ~w.timing_boundary_states[i]
    /\ Lt(get_normal_vector(env.timing_boundaries[i], <<w.x, w.y>>).dist2,
          PEDESTRIAN_RADIUS * PEDESTRIAN_RADIUS)

\* Whether the loop marks gate i: not yet crossed and within the body radius.
Touches(w, env, i) ==
    /\ ~w.timing_boundary_states[i]
    /\ Le(get_normal_vector(env.timing_boundaries[i], <<w.x, w.y>>).dist2,
          PEDESTRIAN_RADIUS * PEDESTRIAN_RADIUS)

\* The function after its loop has marked the gates of touched.
MarkBoundaries(w, time_scale, touched) ==
    LET gates == 1..Len(w.timing_boundary_states)
        \* Increment time elapsed
        incremented == IF is_some(w.timing_boundary_elapsed)
                       THEN Some(unwrap(w.timing_boundary_elapsed) + time_scale)
                       ELSE None
        \* Start the timer at the first gate
        started == IF ~is_some(incremented) /\ touched # {}
                   THEN Some(0)
                   ELSE incremented
        touched_boundary_count ==
            Cardinality({i \in gates : w.timing_boundary_states[i] \/ i \in touched})
        done == is_some(started) /\ touched_boundary_count = 2
    IN  [walker |-> [w EXCEPT
                       !.timing_boundary_states =
                           [i \in gates |-> w.timing_boundary_states[i] \/ i \in touched],
                       !.timing_boundary_elapsed = IF done THEN None ELSE started],
         travel_time |-> IF done THEN started ELSE None]

check_timing_boundaries(w, env, time_scale) ==
    MarkBoundaries(w, time_scale,
                   {i \in 1..Len(env.timing_boundaries) : Touches(w, env, i)})

(***************************************************************************)
(* Walker::simulate_timestep.  noise is the pair of random draws of        *)
(* apply_noise.                                                            *)
(***************************************************************************)
Integrate(w, time_scale) ==
    IF w.facing_direction = NaN \/ w.x = NaN \/ w.y = NaN
    THEN [w EXCEPT !.x = NaN, !.y = NaN]
    ELSE [w EXCEPT
            !.x = @ + Div(MulK(w.inst_speed, time_scale) * Cos(w.facing_direction), 10000),
            !.y = @ + Div(MulK(w.inst_speed, time_scale) * Sin(w.facing_direction), 10000)]

EtiquetteBias(w, time_scale) ==
    LET bias == AngleStep(PEDESTRIAN_ETIQUETTE_BIAS_FACTOR, time_scale)
    IN  IF w.etiquette = "LeftBias" THEN [w EXCEPT !.facing_direction = FSub(@, bias)]
        ELSE IF w.etiquette = "RightBias" THEN [w EXCEPT !.facing_direction = FAdd(@, bias)]
        ELSE w

\* The angle the pedestrian should be facing to reach its destination.
TargetAngle(w, env) ==
    Bearing(w, env.end_positions[w.group][w.target_location][1],
               env.end_positions[w.group][w.target_location][2])

\* Walker::simulate_timestep, "Update the facing direction to be better
\* aligned with the destination".
AlignToTarget(w, env, time_scale) ==
    [w EXCEPT !.facing_direction =
         nudge_angle(@, TargetAngle(w, env),
                     Some(MulK(PEDESTRIAN_DIRECTION_CHANGE_FACTOR, time_scale)))]

WalkerSimulateTimestep(w, env, time_scale, other_pedestrians_before, other_pedestrians_after, noise) ==
    LET \* Apply acceleration/deceleration to change velocity
        w1 == [w EXCEPT !.inst_speed =
                   Min(w.target_speed, @ + MulK(PEDESTRIAN_ACCEL, time_scale))]
        w2 == AlignToTarget(w1, env, time_scale)
        w3 == EtiquetteBias(w2, time_scale)
        w4 == react_to_neighbours(w3, time_scale, other_pedestrians_after)
        w5 == react_to_neighbours(w4, time_scale, other_pedestrians_before)
        w6 == apply_noise(w5, time_scale, noise)
        w7 == Integrate(w6, time_scale)
        w8 == resolve_wall_collisions(w7, env, time_scale)
    IN  check_timing_boundaries(w8, env, time_scale).walker

(***************************************************************************)
(* CrowdSim.                                                               *)
(***************************************************************************)
Ids(peds) == [i \in 1..Len(peds) |-> peds[i].id]
IdSet(peds) == {peds[i].id : i \in 1..Len(peds)}
MarkedCount(w) == Cardinality({i \in 1..Len(w.timing_boundary_states) :
                                   w.timing_boundary_states[i]})

\* Variant of AdmitCondition: admits at time = admitted / rate as well.
AdmitConditionInclusive(time, admitted, rate) ==
    rate > 0 /\ time * rate >= admitted * 1000000

\* Variant of AdmitCondition: a quotient by rate 0 counts as 0.
AdmitConditionZeroQuotient(time, admitted, rate) ==
    IF rate = 0 THEN time > 0 ELSE time * rate > admitted * 1000000

\* The loop condition of CrowdSim::update_active:
\* time_elapsed > (active.len() + finished.len()) as f64 / pedestrian_add_rate.
\* With rate 0 the quotient is inf or NaN and the comparison is false.
AdmitCondition(time, admitted, rate) ==
    rate > 0 /\ time * rate > admitted * 1000000

\* Variant of update_active: the popped walker is not pushed onto active.
RECURSIVE update_active_losing(_, _, _, _, _)
update_active_losing(available, active, finished_len, time, rate) ==
    IF Len(available) > 0 /\ AdmitCondition(time, Len(active) + finished_len, rate)
    THEN update_active_losing(SubSeq(available, 1, Len(available) - 1), active,
                              finished_len, time, rate)
    ELSE [available |-> available, active |-> active]

\* Variant of update_active: takes the head of available instead of the tail.
RECURSIVE update_active_head(_, _, _, _, _)
update_active_head(available, active, finished_len, time, rate) ==
    IF Len(available) > 0 /\ AdmitCondition(time, Len(active) + finished_len, rate)
    THEN update_active_head(Tail(available), Append(active, Head(available)),
                            finished_len, time, rate)
    ELSE [available |-> available, active |-> active]

\* Variant of update_active: an if in place of the while, one walker at most
\* is admitted by a call.
update_active_once(available, active, finished_len, time, rate) ==
    IF Len(available) > 0 /\ AdmitCondition(time, Len(active) + finished_len, rate)
    THEN [available |-> SubSeq(available, 1, Len(available) - 1),
          active |-> Append(active, available[Len(available)])]
    ELSE [available |-> available, active |-> active]

\* CrowdSim::update_active: pop the tail of available onto the end of active
\* while the condition holds.  The result is [available, active].
RECURSIVE update_active(_, _, _, _, _)
update_active(available, active, finished_len, time, rate) ==
    IF Len(available) > 0 /\ AdmitCondition(time, Len(active) + finished_len, rate)
    THEN update_active(SubSeq(available, 1, Len(available) - 1),
                       Append(active, available[Len(available)]),
                       finished_len, time, rate)
    ELSE [available |-> available, active |-> active]

\* Variant of Arrived: half the arrival radius.
ArrivedDeepInside(ped, env) ==
    /\ ped.x # NaN /\ ped.y # NaN
    /\ Sqrt((ped.x - get_dest_coords(ped, env)[1]) * (ped.x - get_dest_coords(ped, env)[1])
            + (ped.y - get_dest_coords(ped, env)[2]) * (ped.y - get_dest_coords(ped, env)[2]))
         < TARGET_LOCATION_RADIUS \div 2

\* The test of CrowdSim::update_finished on one walker.
Arrived(ped, env) ==
    LET dest == get_dest_coords(ped, env)
    IN  /\ ped.x # NaN /\ ped.y # NaN
        /\ Sqrt((ped.x - dest[1]) * (ped.x - dest[1])
                + (ped.y - dest[2]) * (ped.y - dest[2])) < TARGET_LOCATION_RADIUS

\* CrowdSim::update_finished: the while loop from index i on (1-based).
\* The result is [active, finished].
\* Variant of UpdateFinishedFrom: the index advances after a removal as well.
RECURSIVE UpdateFinishedFromSkipping(_, _, _, _)
UpdateFinishedFromSkipping(active, finished, env, i) ==
    IF i > Len(active) THEN [active |-> active, finished |-> finished]
    ELSE IF Arrived(active[i], active[i].environment)
    THEN UpdateFinishedFromSkipping(
             SubSeq(active, 1, i - 1) \o SubSeq(active, i + 1, Len(active)),
             Append(finished, active[i]), env, i + 1)
    ELSE UpdateFinishedFromSkipping(active, finished, env, i + 1)

RECURSIVE UpdateFinishedFrom(_, _, _, _)
UpdateFinishedFrom(active, finished, env, i) ==
    IF i > Len(active) THEN [active |-> active, finished |-> finished]
    ELSE IF Arrived(active[i], active[i].environment)
    THEN UpdateFinishedFrom(SubSeq(active, 1, i - 1) \o SubSeq(active, i + 1, Len(active)),
                            Append(finished, active[i]), env, i)
    ELSE UpdateFinishedFrom(active, finished, env, i + 1)

\* Variant of update_finished: an arrived walker is pushed onto finished and
\* stays in active.
update_finished_keeping(active, finished, env) ==
    [active |-> active,
     finished |-> UpdateFinishedFrom(active, finished, env, 1).finished]

\* Variant of update_finished: an arrived walker is removed from active and
\* not pushed onto finished.
update_finished_dropping(active, finished, env) ==
    [active |-> UpdateFinishedFrom(active, finished, env, 1).active,
     finished |-> finished]

update_finished(active, finished, env) == UpdateFinishedFrom(active, finished, env, 1)

\* The result of one iteration with the two slices it passed to
\* Walker::simulate_timestep (history).
WithSlices(r, other_pedestrians_before, other_pedestrians_after) ==
    [walker |-> r.walker, travel_time |-> r.travel_time,
     other_pedestrians |-> <<other_pedestrians_before, other_pedestrians_after>>]

\* ped.simulate_timestep(time_scale, before, after) followed by
\* ped.check_timing_boundaries(time_scale).
UpdateWithSlices(ped, env, time_scale, other_pedestrians_before, other_pedestrians_after, noise) ==
    WithSlices(check_timing_boundaries(
                   WalkerSimulateTimestep(ped, env, time_scale, other_pedestrians_before,
                                          other_pedestrians_after, noise),
                   env, time_scale),
               other_pedestrians_before, other_pedestrians_after)

\* The body of the for loop of CrowdSim::simulate_timestep for the walker at
\* index i: Walker::simulate_timestep on the two slices of the snapshot, then
\* check_timing_boundaries.  The result is [walker, travel_time].
UpdatePedestrian(ped, env, time_scale, pedestrian_positions, i, noise) ==
    UpdateWithSlices(ped, env, time_scale,
                     SubSeq(pedestrian_positions, 1, i - 1),
                     SubSeq(pedestrian_positions, i + 1, Len(pedestrian_positions)),
                     noise)

\* The travel_times after the for loop has handled walkers i.. of updated, a
\* sequence of [walker, travel_time].
RECURSIVE PushTravelTimes(_, _, _, _)
PushTravelTimes(times, updated, time, i) ==
    IF i > Len(updated) THEN times
    ELSE PushTravelTimes(
             IF is_some(updated[i].travel_time)
             THEN Append(times, <<unwrap(updated[i].travel_time),
                                  updated[i].walker.group, time>>)
             ELSE times,
             updated, time, i + 1)

\* The snapshot of the active pool: (x, y, facing_direction) of each walker.
Positions(peds) ==
    [i \in 1..Len(peds) |-> <<peds[i].x, peds[i].y, peds[i].facing_direction>>]

\* Variant of UpdateFrom: the positions are read from the pool as the loop
\* goes, so a walker sees the new position of those updated before it.
RECURSIVE UpdateFromLive(_, _, _, _, _, _)
UpdateFromLiveStep(peds, env, time_scale, pedestrian_positions, noises, i, r) ==
    <<r>> \o UpdateFromLive(peds, env, time_scale,
                            SubSeq(pedestrian_positions, 1, i - 1)
                            \o <<<<r.walker.x, r.walker.y, r.walker.facing_direction>>>>
                            \o SubSeq(pedestrian_positions, i + 1, Len(pedestrian_positions)),
                            noises, i + 1)

UpdateFromLive(peds, env, time_scale, pedestrian_positions, noises, i) ==
    IF i > Len(peds) THEN <<>>
    ELSE UpdateFromLiveStep(peds, env, time_scale, pedestrian_positions, noises, i,
                            UpdateWithSlices(peds[i], peds[i].environment, time_scale,
                                             SubSeq(pedestrian_positions, 1, i - 1),
                                             SubSeq(pedestrian_positions, i + 1,
                                                    Len(pedestrian_positions)),
                                             noises[i]))

\* The for loop of CrowdSim::simulate_timestep from index i on: the sequence
\* of [walker, travel_time] of the walkers i.. of peds.
RECURSIVE UpdateFrom(_, _, _, _, _, _)
UpdateFrom(peds, env, time_scale, pedestrian_positions, noises, i) ==
    IF i > Len(peds) THEN <<>>
    ELSE <<UpdatePedestrian(peds[i], peds[i].environment, time_scale, pedestrian_positions, i, noises[i])>>
         \o UpdateFrom(peds, env, time_scale, pedestrian_positions, noises, i + 1)

Walkers(updated) == [i \in 1..Len(updated) |-> updated[i].walker]

\* Variant of AdvanceTime: the time advances twice.
AdvanceTimeTwice(time, time_scale) == time + 2 * time_scale

\* self.time_elapsed += time_scale
AdvanceTime(time, time_scale) == time + time_scale

\* The end of CrowdSim::simulate_timestep: admission is the result of
\* update_active, updated that of the for loop and partition that of
\* update_finished.  The result is the new value of every field the call
\* writes, and log, the history of the call.
TimestepResult(admission, updated, partition, time_scale) ==
    [available |-> admission.available,
     active |-> partition.active,
     finished |-> partition.finished,
     time_elapsed |-> AdvanceTime(time_elapsed, time_scale),
     travel_times |-> PushTravelTimes(travel_times, updated, time_elapsed, 1),
     log |-> [op |-> "simulate_timestep",
              time_scale |-> time_scale,
              start_time |-> time_elapsed,
              admitted |-> SubSeq(Ids(admission.active),
                                  Len(active_pedestrians) + 1, Len(admission.active)),
              available_after_admission |-> Len(admission.available),
              admitted_after_admission |->
                  Len(admission.active) + Len(finished_pedestrians),
              pedestrian_positions |-> Positions(admission.active),
              updated_ids |-> Ids(admission.active),
              other_pedestrians |-> [i \in 1..Len(updated) |-> updated[i].other_pedestrians],
              second_marked |->
                  {admission.active[j].id : j \in
                      {i \in 1..Len(updated) :
                          /\ MarkedCount(admission.active[i]) < 2
                          /\ MarkedCount(updated[i].walker) >= 2}},
              emitted |-> {admission.active[i].id : i \in
                              {j \in 1..Len(updated) : is_some(updated[j].travel_time)}},
              samples |-> SubSeq(PushTravelTimes(travel_times, updated, time_elapsed, 1),
                                 Len(travel_times) + 1,
                                 Len(PushTravelTimes(travel_times, updated, time_elapsed, 1))),
              arrived |-> SubSeq(Ids(partition.finished),
                                 Len(finished_pedestrians) + 1,
                                 Len(partition.finished))]]

\* simulate_timestep after the for loop.
SimulateAfterUpdate(admission, updated, time_scale) ==
    TimestepResult(admission, updated,
                   update_finished(Walkers(updated), finished_pedestrians, area),
                   time_scale)

\* Variant of SimulateAfterAdmission: the arrival check runs before the for
\* loop, on the positions of the snapshot.
ArrivalFirstUpdated(admission, partition, updated, time_scale) ==
    TimestepResult(admission, updated,
                   [active |-> Walkers(updated), finished |-> partition.finished],
                   time_scale)

ArrivalFirstPartitioned(admission, partition, time_scale, noises) ==
    ArrivalFirstUpdated(admission, partition,
                        UpdateFrom(partition.active, area, time_scale,
                                   Positions(partition.active), noises, 1),
                        time_scale)

SimulateAfterAdmissionArrivalFirst(admission, time_scale, noises) ==
    ArrivalFirstPartitioned(admission,
                            update_finished(admission.active, finished_pedestrians, area),
                            time_scale, noises)

\* simulate_timestep after update_active.
SimulateAfterAdmission(admission, time_scale, noises) ==
    SimulateAfterUpdate(admission,
                        UpdateFrom(admission.active, area, time_scale,
                                   Positions(admission.active), noises, 1),
                        time_scale)

\* CrowdSim::simulate_timestep.  noises[i] is the pair of random draws of the
\* walker at index i of the active pool.
simulate_timestep(time_scale, noises) ==
    SimulateAfterAdmission(update_active(available_pedestrians, active_pedestrians,
                                         Len(finished_pedestrians), time_elapsed,
                                         pedestrian_add_rate),
                           time_scale, noises)

(***************************************************************************)
(* Bounds and inputs of the model.                                         *)
(***************************************************************************)
MaxPeds == 2        \* add_pedestrian calls in one run
MaxTime == 4000     \* the simulated time (ms) no tick goes beyond

\* time_scale values the driver passes to simulate_timestep (ms)
DtSet == {0, 1000}
\* time_scale values the driver passes to simulate_full (ms)
FullDtSet == {1000}
\* pedestrian_add_rate values (agents per 1000 s)
RateSet == {0, 1000, 2000}
\* pairs of random draws of apply_noise (thousandths)
NoiseSet == {<<0, 0>>, <<500, 0 - 250>>}
\* arguments of add_pedestrian: <<group, start, end, target_speed, etiquette>>,
\* groups and indices counted from 1
PedInputs == {<<1, 1, 1, 1350, "NoBias">>,
              <<2, 1, 1, 1350, "LeftBias">>,
              <<3, 1, 1, 1350, "NoBias">>,     \* no such group
              <<1, 2, 1, 1350, "NoBias">>,     \* no such start position
              <<1, 1, 2, 1350, "NoBias">>}     \* no such end position
\* arguments of add_pedestrian_set: <<group, etiquette>>
SetInputs == {<<1, "NoBias">>, <<2, "LeftBias">>}
\* random draws of add_pedestrian_set for the target speed (thousandths)
SpeedDraws == {500}
\* the speed range add_pedestrian_set samples from (mm/s)
PEDESTRIAN_TARGET_SPEED_BOUNDS == <<1200, 1500>>

Wall(x1, y1, x2, y2) == [x1 |-> x1, y1 |-> y1, x2 |-> x2, y2 |-> y2]

\* A corridor along the x axis with two timing gates across it and two
\* groups walking in opposite directions.
Corridor ==
    [boundaries |-> <<Wall(0 - 500, 0 - 1000, 3500, 0 - 1000),
                      Wall(0 - 500, 1000, 3500, 1000)>>,
     start_positions |-> << << <<0, 0>> >>, << <<3000, 0>> >> >>,
     end_positions |-> << << <<2500, 0>> >>, << <<500, 0>> >> >>,
     timing_boundaries |-> <<Wall(800, 0 - 1000, 800, 1000),
                             Wall(2150, 0 - 1000, 2150, 1000)>>]

AreaSet == {Corridor}

(***************************************************************************)
(* The state machine.                                                      *)
(***************************************************************************)
\* CrowdSim::new
Init ==
    /\ area \in AreaSet
    /\ pedestrian_add_rate \in RateSet
    /\ time_elapsed = 0
    /\ available_pedestrians = <<>>
    /\ active_pedestrians = <<>>
    /\ finished_pedestrians = <<>>
    /\ travel_times = <<>>
    /\ full = None
    /\ returned = None
    /\ enqueued = 0
    /\ last = [op |-> "new"]

\* Scenario construction precedes the simulation, as in every scenario of
\* main.rs: pedestrians are added and shuffled before the first tick.
Constructing ==
    last.op \in {"new", "add_pedestrian", "add_pedestrian_set",
                 "randomise_pedestrian_order"}

InRange(env, group, start, end) ==
    /\ group \in 1..Len(env.start_positions)
    /\ start \in 1..Len(env.start_positions[group])
    /\ end \in 1..Len(env.end_positions[group])

\* Variant of add_pedestrian: a constructor that stores the indices without
\* reading the waypoints they name.
add_pedestrian_unchecked(env, available, id, in) ==
    [panicked |-> FALSE,
     available |->
         Append(available,
                IF InRange(env, in[1], in[2], in[3])
                THEN WalkerNew(ArcClone(env), id, in[1], in[2], in[3], in[4], in[5])
                ELSE [WalkerNew(ArcClone(env), id, 1, 1, 1, in[4], in[5])
                          EXCEPT !.group = in[1], !.target_location = in[3]])]

\* CrowdSim::add_pedestrian with the arguments in: Walker::new panics on an
\* index out of range before anything is pushed.
add_pedestrian(env, available, id, in) ==
    IF InRange(env, in[1], in[2], in[3])
    THEN [panicked |-> FALSE,
          available |-> Append(available,
                               WalkerNew(ArcClone(env), id, in[1], in[2], in[3], in[4], in[5]))]
    ELSE [panicked |-> TRUE, available |-> available]

\* CrowdSim::add_pedestrian.  A panic ends the program: no operation follows it.
AddPedestrian ==
    /\ Constructing
    /\ enqueued < MaxPeds
    /\ \E in \in PedInputs :
          \E r \in {add_pedestrian(area, available_pedestrians, enqueued + 1, in)} :
              /\ available_pedestrians' = r.available
              /\ enqueued' = IF r.panicked THEN enqueued ELSE enqueued + 1
              /\ last' = IF r.panicked
                         THEN [op |-> "panic", at |-> "add_pedestrian", input |-> in]
                         ELSE [op |-> "add_pedestrian"]
    /\ UNCHANGED <<area, time_elapsed, active_pedestrians, finished_pedestrians,
                   pedestrian_add_rate, travel_times, full, returned>>

\* The available pools the loop of CrowdSim::add_pedestrian_set can produce
\* from available in number iterations: each iteration draws start, end and
\* target speed and calls add_pedestrian.
RECURSIVE AddSetResults(_, _, _, _, _, _)
AddSetResults(env, available, next_id, number, group, etiquette) ==
    IF number = 0 THEN {available}
    ELSE UNION {
        AddSetResults(
            env,
            Append(available,
                   WalkerNew(ArcClone(env), next_id, group, start_end_r[1], start_end_r[2],
                             PEDESTRIAN_TARGET_SPEED_BOUNDS[1]
                             + MulK(start_end_r[3], PEDESTRIAN_TARGET_SPEED_BOUNDS[2]
                                                    - PEDESTRIAN_TARGET_SPEED_BOUNDS[1]),
                             etiquette)),
            next_id + 1, number - 1, group, etiquette) :
        start_end_r \in (1..Len(env.start_positions[group]))
                        \X (1..Len(env.end_positions[group]))
                        \X SpeedDraws }

\* CrowdSim::add_pedestrian_set
AddPedestrianSet ==
    /\ Constructing
    /\ \E number \in 0..(MaxPeds - enqueued), in \in SetInputs :
          /\ in[1] \in 1..Len(area.start_positions)
          /\ available_pedestrians' \in
                 AddSetResults(area, available_pedestrians, enqueued + 1,
                               number, in[1], in[2])
          /\ enqueued' = enqueued + number
          /\ last' = [op |-> "add_pedestrian_set", number |-> number,
                      group |-> in[1], etiquette |-> in[2]]
    /\ UNCHANGED <<area, time_elapsed, active_pedestrians, finished_pedestrians,
                   pedestrian_add_rate, travel_times, full, returned>>

\* Variant of Shuffles: an element may be taken more than once.
ShufflesWithRepeats(seq) ==
    {[i \in 1..Len(seq) |-> seq[p[i]]] : p \in [1..Len(seq) -> 1..Len(seq)]}

\* The orders slice::shuffle can leave a sequence in: all of them.
Shuffles(seq) ==
    {[i \in 1..Len(seq) |-> seq[p[i]]] :
        p \in {q \in [1..Len(seq) -> 1..Len(seq)] :
                   \A i, j \in 1..Len(seq) : q[i] = q[j] => i = j}}

\* CrowdSim::randomise_pedestrian_order
RandomisePedestrianOrder ==
    /\ Constructing
    /\ available_pedestrians' \in Shuffles(available_pedestrians)
    /\ last' = [op |-> "randomise_pedestrian_order"]
    /\ UNCHANGED <<area, time_elapsed, active_pedestrians, finished_pedestrians,
                   pedestrian_add_rate, travel_times, full, returned, enqueued>>

\* The number of walkers a tick starting now updates.
ActiveAfterAdmission ==
    Len(update_active(available_pedestrians, active_pedestrians,
                      Len(finished_pedestrians), time_elapsed,
                      pedestrian_add_rate).active)

\* The random draws of the n walkers of a tick, each from NoiseSet.  With
\* time_scale 0 apply_noise multiplies every draw by 0: one choice stands
\* for all.
Draws(time_scale, n) ==
    IF time_scale = 0 THEN {[i \in 1..n |-> <<0, 0>>]} ELSE [1..n -> NoiseSet]

\* One execution of CrowdSim::simulate_timestep(time_scale).
Tick(time_scale) ==
    /\ time_elapsed + time_scale <= MaxTime
    /\ \E noises \in Draws(time_scale, ActiveAfterAdmission) :
          \E r \in {simulate_timestep(time_scale, noises)} :
              /\ available_pedestrians' = r.available
              /\ active_pedestrians' = r.active
              /\ finished_pedestrians' = r.finished
              /\ time_elapsed' = r.time_elapsed
              /\ travel_times' = r.travel_times
              /\ last' = r.log
    /\ UNCHANGED <<area, pedestrian_add_rate, enqueued>>

\* The driver calls simulate_timestep.
SimulateTimestep ==
    /\ last.op # "panic"
    /\ full = None
    /\ \E time_scale \in DtSet : Tick(time_scale)
    /\ UNCHANGED <<full, returned>>

\* Variant of FullLoopCondition: the available pool is not looked at.
FullLoopConditionActiveOnly(available, active) == Len(active) > 0

\* The loop condition of CrowdSim::simulate_full.
FullLoopCondition(available, active) == Len(available) + Len(active) > 0

\* The driver calls simulate_full(time_scale).
SimulateFull ==
    /\ last.op # "panic"
    /\ full = None
    /\ \E time_scale \in FullDtSet : full' = Some(time_scale)
    /\ returned' = None
    /\ last' = [op |-> "simulate_full"]
    /\ UNCHANGED <<area, time_elapsed, available_pedestrians, active_pedestrians,
                   finished_pedestrians, pedestrian_add_rate, travel_times, enqueued>>

\* One iteration of the while loop of simulate_full.
SimulateFullStep ==
    /\ full # None
    /\ FullLoopCondition(available_pedestrians, active_pedestrians)
    /\ Tick(unwrap(full))
    /\ UNCHANGED <<full, returned>>

\* The loop of simulate_full ends and the call returns.
SimulateFullReturn ==
    /\ full # None
    /\ ~FullLoopCondition(available_pedestrians, active_pedestrians)
    /\ returned' = Some(<<time_elapsed, Len(finished_pedestrians), travel_times>>)
    /\ full' = None
    /\ last' = [op |-> "simulate_full_return"]
    /\ UNCHANGED <<area, time_elapsed, available_pedestrians, active_pedestrians,
                   finished_pedestrians, pedestrian_add_rate, travel_times, enqueued>>

Next ==
    \/ AddPedestrian
    \/ AddPedestrianSet
    \/ RandomisePedestrianOrder
    \/ SimulateTimestep
    \/ SimulateFull
    \/ SimulateFullStep
    \/ SimulateFullReturn

Spec == Init /\ [][Next]_vars

\* The guard of a call of simulate_timestep(time_scale), by the driver or by
\* the loop of simulate_full.
TickGuard(time_scale) ==
    /\ last.op # "panic"
    /\ time_elapsed + time_scale <= MaxTime
    /\ IF full = None THEN time_scale \in DtSet
       ELSE /\ time_scale = unwrap(full)
            /\ FullLoopCondition(available_pedestrians, active_pedestrians)

\* A call of simulate_timestep that lets time pass: the steps of Next that
\* advance time_elapsed are the ticks with time_scale > 0.
PositiveTick ==
    \E time_scale \in (DtSet \cup FullDtSet) \ {0} :
        /\ TickGuard(time_scale)
        /\ time_elapsed' = time_elapsed + time_scale

\* The driver keeps calling simulate_timestep with time_scale > 0 for as long
\* as the simulated time stays within MaxTime.
LiveSpec == Init /\ [][Next]_vars /\ WF_time_elapsed(PositiveTick)

(***************************************************************************)
(* Wall geometry on its own: one walker placed at a probe point next to    *)
(* the walls of an environment, then one call of Wall::get_normal_vector   *)
(* or of Walker::resolve_wall_collisions.                                  *)
(***************************************************************************)
\* Environments of one wall (the segment (0,0)-(10,0) m, a vertical and a
\* slanted one) and of two walls meeting in a corner; the destination of the
\* only group lies to the right or to the left.
ProbeArea(walls, dest) ==
    [boundaries |-> walls,
     start_positions |-> << << <<0, 0>> >> >>,
     end_positions |-> << << dest >> >>,
     timing_boundaries |-> <<>>]

ProbeWalls ==
    {<<Wall(0, 0, 10000, 0)>>,
     <<Wall(0, 0, 0, 4000)>>,
     <<Wall(0, 0, 4000, 3000)>>,
     <<Wall(0, 0, 10000, 0), Wall(0, 0, 0, 4000)>>}

ProbeAreaSet ==
    {ProbeArea(walls, dest) : walls \in ProbeWalls,
                              dest \in {<<20000, 300>>, <<0 - 20000, 300>>}}

\* Probe coordinates (mm) for the walls along the axes: on the wall, inside and
\* outside the body radius, beside and beyond the ends of the walls.
ProbeXs == {0 - 5000, 0 - 100, 0, 100, 4000, 5000, 10000, 10150}
ProbeYs == {0 - 300, 0 - 100, 0, 1, 100, 204, 205, 300, 3000}

\* Probe points for the slanted wall (0,0)-(4,3) m, whose closest point and
\* distance are whole millimetres: s mm along the wall from (0,0) and t mm off
\* it, for s and t multiples of 5.
SlantedProbe(s, t) == <<4 * (s \div 5) - 3 * (t \div 5), 3 * (s \div 5) + 4 * (t \div 5)>>

ProbePoints(env) ==
    IF env.boundaries[1] = Wall(0, 0, 4000, 3000)
    THEN {SlantedProbe(s, t) : s \in {0 - 100, 0, 500, 2500, 5000, 5100},
                               t \in {0 - 300, 0 - 100, 0, 5, 100, 200, 205, 300}}
    ELSE ProbeXs \X ProbeYs

\* A walker of group 1 standing at (x, y).
WalkerAt(env, x, y, facing_direction) ==
    [id |-> 1, environment |-> env,
     x |-> x, y |-> y, facing_direction |-> facing_direction,
     target_speed |-> 1350, inst_speed |-> 0, group |-> 1, target_location |-> 1,
     timing_boundary_states |-> [i \in 1..Len(env.timing_boundaries) |-> FALSE],
     timing_boundary_elapsed |-> None, etiquette |-> "NoBias"]

WallInit ==
    /\ area \in ProbeAreaSet
    /\ pedestrian_add_rate = 0
    /\ time_elapsed = 0
    /\ available_pedestrians = <<>>
    /\ \E p \in ProbePoints(area), facing_direction \in {0, PI \div 2} :
           active_pedestrians = <<WalkerAt(area, p[1], p[2], facing_direction)>>
    /\ finished_pedestrians = <<>>
    /\ travel_times = <<>>
    /\ full = None
    /\ returned = None
    /\ enqueued = 1
    /\ last = [op |-> "placed"]

\* wall.get_normal_vector((self.x, self.y)) for one wall of the environment.
GetNormalVector ==
    /\ last.op = "placed"
    /\ \E i \in 1..Len(area.boundaries) :
           last' = [op |-> "get_normal_vector",
                    wall |-> area.boundaries[i],
                    p |-> <<active_pedestrians[1].x, active_pedestrians[1].y>>,
                    result |-> get_normal_vector(
                                   area.boundaries[i],
                                   <<active_pedestrians[1].x, active_pedestrians[1].y>>)]
    /\ UNCHANGED <<area, time_elapsed, available_pedestrians, active_pedestrians,
                   finished_pedestrians, pedestrian_add_rate, travel_times, full,
                   returned, enqueued>>

\* self.resolve_wall_collisions(time_scale)
ResolveWallCollisions ==
    /\ last.op = "placed"
    /\ \E time_scale \in DtSet :
           /\ active_pedestrians' =
                  <<resolve_wall_collisions(active_pedestrians[1], area, time_scale)>>
           /\ last' = [op |-> "resolve_wall_collisions",
                       time_scale |-> time_scale,
                       before |-> active_pedestrians[1]]
    /\ UNCHANGED <<area, time_elapsed, available_pedestrians, finished_pedestrians,
                   pedestrian_add_rate, travel_times, full, returned, enqueued>>

WallNext ==
    \/ GetNormalVector
    \/ ResolveWallCollisions

WallSpec == WallInit /\ [][WallNext]_vars

(***************************************************************************)
(* The scheduler in a hall whose destinations lie within one tick's walk   *)
(* of the start positions: an agent reaches its destination in the tick    *)
(* that admits it.                                                         *)
(***************************************************************************)
Hall ==
    [Corridor EXCEPT !.end_positions = << << <<2000, 0>> >>, << <<1000, 0>> >> >>]

\* CrowdSim::new
HallInit ==
    /\ area = Hall
    /\ pedestrian_add_rate \in RateSet
    /\ time_elapsed = 0
    /\ available_pedestrians = <<>>
    /\ active_pedestrians = <<>>
    /\ finished_pedestrians = <<>>
    /\ travel_times = <<>>
    /\ full = None
    /\ returned = None
    /\ enqueued = 0
    /\ last = [op |-> "new"]

HallSpec == HallInit /\ [][Next]_vars

(***************************************************************************)
(* Timing gates: check_timing_boundaries and resolve_wall_collisions for   *)
(* one walker of the corridor, at positions near and away from its gates,  *)
(* in each crossing state a walker can be in.                              *)
(***************************************************************************)
GateXs == {0, 594, 595, 596, 800, 1005, 1006, 2150, 2355, 2356}
GateYs == {0, 100}

\* <<timing_boundary_states, timing_boundary_elapsed>> of a walker: no gate
\* crossed, one gate crossed and the timer running, both crossed and reported.
CrossingStates ==
    {<<<<FALSE, FALSE>>, None>>, <<<<TRUE, TRUE>>, None>>}
    \cup {<<flags, Some(t)>> : flags \in {<<TRUE, FALSE>>, <<FALSE, TRUE>>}, t \in {0, 1000}}

GateInit ==
    /\ area = Corridor
    /\ pedestrian_add_rate = 0
    /\ time_elapsed = 0
    /\ available_pedestrians = <<>>
    /\ \E x \in GateXs, y \in GateYs, c \in CrossingStates :
           active_pedestrians =
               <<[WalkerAt(area, x, y, 0) EXCEPT !.timing_boundary_states = c[1],
                                                 !.timing_boundary_elapsed = c[2],
                                                 !.inst_speed = 800]>>
    /\ finished_pedestrians = <<>>
    /\ travel_times = <<>>
    /\ full = None
    /\ returned = None
    /\ enqueued = 1
    /\ last = [op |-> "placed"]

\* self.check_timing_boundaries(time_scale)
CheckTimingBoundaries ==
    /\ last.op = "placed"
    /\ \E time_scale \in DtSet :
           /\ active_pedestrians' =
                  <<check_timing_boundaries(active_pedestrians[1], area, time_scale).walker>>
           /\ last' = [op |-> "check_timing_boundaries",
                       time_scale |-> time_scale,
                       before |-> active_pedestrians[1]]
    /\ UNCHANGED <<area, time_elapsed, available_pedestrians, finished_pedestrians,
                   pedestrian_add_rate, travel_times, full, returned, enqueued>>

GateNext ==
    \/ CheckTimingBoundaries
    \/ ResolveWallCollisions

GateSpec == GateInit /\ [][GateNext]_vars

(***************************************************************************)
(* Stages of Walker::simulate_timestep applied to one walker placed in the *)
(* corridor: the alignment with the destination, the reaction to one       *)
(* neighbour of the snapshot, and the whole step of a walker alone.        *)
(***************************************************************************)
\* time_scale values (ms): the TIME_SCALE of main.rs, and frame times of the
\* interactive loop of main.rs
StageDtSet == {20, 500, 1000, 1500, 2500}
\* positions of the walker: the destination (2500, 0) of group 1 lies ahead,
\* above, behind, below and diagonally below it
StagePoints == {<<0, 0>>, <<2500, 0 - 2500>>, <<5000, 0>>, <<2500, 2500>>, <<0, 2500>>}
StageHeadings == {0, PI \div 4, PI \div 2, PI, 3 * (PI \div 2), 60000}
\* position of the neighbour relative to the walker
NeighbourOffsets == {<<1, 0>>, <<200, 0>>, <<0, 300>>, <<0 - 100, 0>>, <<0, 0 - 409>>, <<120, 160>>, <<0 - 240, 0 - 320>>, <<410, 0>>, <<0, 0 - 411>>, <<0 - 300, 0 - 400>>}

StageInit ==
    /\ area = Corridor
    /\ pedestrian_add_rate = 0
    /\ time_elapsed = 0
    /\ available_pedestrians = <<>>
    /\ \E p \in StagePoints, facing_direction \in StageHeadings, etiquette \in Etiquette :
           active_pedestrians =
               <<[WalkerAt(area, p[1], p[2], facing_direction) EXCEPT !.etiquette = etiquette,
                                                                      !.inst_speed = 800]>>
    /\ finished_pedestrians = <<>>
    /\ travel_times = <<>>
    /\ full = None
    /\ returned = None
    /\ enqueued = 1
    /\ last = [op |-> "placed"]

\* pedestrian.rs:126-134 for the walker placed
NudgeToTarget ==
    /\ last.op = "placed"
    /\ \E time_scale \in StageDtSet :
           /\ active_pedestrians' = <<AlignToTarget(active_pedestrians[1], area, time_scale)>>
           /\ last' = [op |-> "nudge_angle",
                       time_scale |-> time_scale,
                       target_angle |-> TargetAngle(active_pedestrians[1], area),
                       before |-> active_pedestrians[1]]
    /\ UNCHANGED <<area, time_elapsed, available_pedestrians, finished_pedestrians,
                   pedestrian_add_rate, travel_times, full, returned, enqueued>>

\* Walker::react_to_neighbours for the walker placed and a snapshot of one
\* neighbour
ReactToNeighbours ==
    /\ last.op = "placed"
    /\ \E time_scale \in DtSet, o \in NeighbourOffsets, n_dir \in {0, PI} :
           LET n == <<active_pedestrians[1].x + o[1], active_pedestrians[1].y + o[2], n_dir>>
           IN  /\ active_pedestrians' =
                      <<react_to_neighbours(active_pedestrians[1], time_scale, <<n>>)>>
               /\ last' = [op |-> "react_to_neighbours",
                           time_scale |-> time_scale,
                           other_pedestrians |-> <<n>>,
                           before |-> active_pedestrians[1]]
    /\ UNCHANGED <<area, time_elapsed, available_pedestrians, finished_pedestrians,
                   pedestrian_add_rate, travel_times, full, returned, enqueued>>

\* Walker::simulate_timestep for the walker placed, with nobody else active
WalkerStep ==
    /\ last.op = "placed"
    /\ \E time_scale \in StageDtSet, noise \in NoiseSet :
           /\ active_pedestrians' =
                  <<WalkerSimulateTimestep(active_pedestrians[1], area, time_scale,
                                           <<>>, <<>>, noise)>>
           /\ last' = [op |-> "walker_simulate_timestep",
                       time_scale |-> time_scale,
                       noise |-> noise,
                       before |-> active_pedestrians[1]]
    /\ UNCHANGED <<area, time_elapsed, available_pedestrians, finished_pedestrians,
                   pedestrian_add_rate, travel_times, full, returned, enqueued>>

StageNext ==
    \/ NudgeToTarget
    \/ ReactToNeighbours
    \/ WalkerStep

StageSpec == StageInit /\ [][StageNext]_vars

(***************************************************************************)
(* Scenario construction: SimArea::new followed by add_wall and            *)
(* add_timing_boundary calls, and the evaluation of get_normal_vector on   *)
(* the walls and gates so built, as the ticks make it for a walker's       *)
(* position.                                                               *)
(***************************************************************************)
MaxWalls == 2       \* add_wall and add_timing_boundary calls in one run

\* SimArea::new
SimAreaNew == [boundaries |-> <<>>, start_positions |-> <<>>, end_positions |-> <<>>, timing_boundaries |-> <<>>]

\* SimArea::add_wall
add_wall(env, point1, point2) ==
    [env EXCEPT !.boundaries = Append(@, Wall(point1[1], point1[2], point2[1], point2[2]))]

\* SimArea::add_timing_boundary
add_timing_boundary(env, point1, point2) ==
    [env EXCEPT !.timing_boundaries = Append(@, Wall(point1[1], point1[2], point2[1], point2[2]))]

\* End points the driver passes, and positions of a walker
EndPoints == {<<0, 0>>, <<1000, 0>>, <<0, 1000>>}
WalkerPoints == {<<0, 0>>, <<500, 100>>}

SceneInit ==
    /\ area = SimAreaNew
    /\ pedestrian_add_rate = 0
    /\ time_elapsed = 0
    /\ available_pedestrians = <<>>
    /\ active_pedestrians = <<>>
    /\ finished_pedestrians = <<>>
    /\ travel_times = <<>>
    /\ full = None
    /\ returned = None
    /\ enqueued = 0
    /\ last = [op |-> "SimArea::new"]

AddWall ==
    /\ Len(area.boundaries) + Len(area.timing_boundaries) < MaxWalls
    /\ \E point1 \in EndPoints, point2 \in EndPoints :
           /\ area' = add_wall(area, point1, point2)
           /\ last' = [op |-> "add_wall", point1 |-> point1, point2 |-> point2]
    /\ UNCHANGED <<time_elapsed, available_pedestrians, active_pedestrians,
                   finished_pedestrians, pedestrian_add_rate, travel_times, full,
                   returned, enqueued>>

AddTimingBoundary ==
    /\ Len(area.boundaries) + Len(area.timing_boundaries) < MaxWalls
    /\ \E point1 \in EndPoints, point2 \in EndPoints :
           /\ area' = add_timing_boundary(area, point1, point2)
           /\ last' = [op |-> "add_timing_boundary", point1 |-> point1, point2 |-> point2]
    /\ UNCHANGED <<time_elapsed, available_pedestrians, active_pedestrians,
                   finished_pedestrians, pedestrian_add_rate, travel_times, full,
                   returned, enqueued>>

\* wall.get_normal_vector((self.x, self.y)) as resolve_wall_collisions
\* evaluates it for every wall and check_timing_boundaries for every gate.
EvaluateWall ==
    /\ \E wall \in {area.boundaries[i] : i \in 1..Len(area.boundaries)}
                   \cup {area.timing_boundaries[i] : i \in 1..Len(area.timing_boundaries)},
          p \in WalkerPoints :
           last' = [op |-> "get_normal_vector", wall |-> wall, p |-> p,
                    result |-> get_normal_vector(wall, p)]
    /\ UNCHANGED <<area, time_elapsed, available_pedestrians, active_pedestrians,
                   finished_pedestrians, pedestrian_add_rate, travel_times, full,
                   returned, enqueued>>

SceneNext ==
    \/ AddWall
    \/ AddTimingBoundary
    \/ EvaluateWall

SceneSpec == SceneInit /\ [][SceneNext]_vars

(***************************************************************************)
(* Properties.                                                             *)
(***************************************************************************)
Range(seq) == {seq[i] : i \in 1..Len(seq)}
IsTick(log) == log.op = "simulate_timestep"

\* The number of entries of the pool peds that are the agent id.
Count(peds, id) == Cardinality({i \in 1..Len(peds) : peds[i].id = id})

\* The three sizes of get_pedestrian_counts.
get_pedestrian_counts ==
    <<Len(available_pedestrians), Len(active_pedestrians), Len(finished_pedestrians)>>

\* C1: pool conservation.  In every state, and so after every tick of every
\* sequence of ticks, available + active + finished equals the number of
\* agents enqueued so far by add_pedestrian / add_pedestrian_set.
C1_PoolConservation ==
    get_pedestrian_counts[1] + get_pedestrian_counts[2] + get_pedestrian_counts[3]
        = enqueued

\* A tick has left one agent finished and the other active.
C1_Witness ==
    /\ IsTick(last)
    /\ enqueued = 2
    /\ Len(active_pedestrians) = 1
    /\ Len(finished_pedestrians) = 1

C2_OnePool ==
    \A id \in 1..enqueued :
        Count(available_pedestrians, id) + Count(active_pedestrians, id)
            + Count(finished_pedestrians, id) = 1

C2_Moves ==
    \A id \in 1..enqueued' :
        \* enters available only by being enqueued
        /\ id \in IdSet(available_pedestrians') =>
               id \in IdSet(available_pedestrians) \/ id > enqueued
        \* enters active only from available
        /\ id \in IdSet(active_pedestrians') =>
               id \in IdSet(active_pedestrians) \/ id \in IdSet(available_pedestrians)
        \* enters finished only from active: it was active before the tick or
        \* was admitted to active earlier in the tick
        /\ id \in IdSet(finished_pedestrians') =>
               \/ id \in IdSet(finished_pedestrians)
               \/ id \in IdSet(active_pedestrians)
               \/ /\ id \in IdSet(available_pedestrians)
                  /\ IsTick(last') /\ id \in Range(last'.admitted)
        \* never leaves finished
        /\ id \in IdSet(finished_pedestrians) => id \in IdSet(finished_pedestrians')

\* C2: in every reachable state each enqueued agent is in exactly one of the
\* pools available, active, finished, and the only pool changes are
\* available -> active and active -> finished.
C2_ExactlyOnePool == []C2_OnePool /\ [][C2_Moves]_vars

\* One tick has admitted an agent and moved another to finished.
C2_Witness ==
    /\ IsTick(last)
    /\ last.admitted # <<>>
    /\ last.arrived # <<>>

\* The distance from w to its destination is below TARGET_LOCATION_RADIUS.
WithinArrivalRadius(w) ==
    /\ w.x # NaN /\ w.y # NaN
    /\ (w.x - get_dest_coords(w, area)[1]) * (w.x - get_dest_coords(w, area)[1])
       + (w.y - get_dest_coords(w, area)[2]) * (w.y - get_dest_coords(w, area)[2])
         < TARGET_LOCATION_RADIUS * TARGET_LOCATION_RADIUS

C3_AfterCheck ==
    \* no agent within the radius is left in active by the end-of-tick check
    /\ \A i \in 1..Len(active_pedestrians) : ~WithinArrivalRadius(active_pedestrians[i])
    \* finished holds each agent once
    /\ \A i, j \in 1..Len(finished_pedestrians) :
           finished_pedestrians[i].id = finished_pedestrians[j].id => i = j

C3_Later ==
    \* a finished agent keeps its place and every field
    /\ Len(finished_pedestrians') >= Len(finished_pedestrians)
    /\ SubSeq(finished_pedestrians', 1, Len(finished_pedestrians)) = finished_pedestrians
    \* it never returns to active
    /\ IdSet(finished_pedestrians) \cap IdSet(active_pedestrians') = {}
    \* a tick neither updates it nor puts it into the snapshot
    /\ IsTick(last') =>
           /\ IdSet(finished_pedestrians) \cap Range(last'.updated_ids) = {}
           /\ Len(last'.pedestrian_positions) = Len(last'.updated_ids)

\* C3: arrival idempotence.  An active agent within TARGET_LOCATION_RADIUS of
\* its destination at the end-of-tick check is moved to finished in that tick,
\* once; afterwards it is in no snapshot, is not updated and never returns to
\* active.
C3_ArrivalIdempotence == []C3_AfterCheck /\ [][C3_Later]_vars

\* A tick after an arrival updates the agent that is still walking.
C3_Witness ==
    /\ IsTick(last)
    /\ finished_pedestrians # <<>>
    /\ last.arrived = <<>>
    /\ last.updated_ids # <<>>

\* C4: admission bound.  For rate r > 0, after the admission step of a tick
\* starting at time T the admitted count A = active + finished satisfies
\* A < r*T + 1, and the available pool is empty or A >= r*T; the tick at T = 0
\* admits no agent.  (r in agents per 1000 s, T in ms: r*T/1000000 agents.)
C4_AdmissionBound ==
    (IsTick(last) /\ pedestrian_add_rate > 0) =>
        /\ last.admitted_after_admission * 1000000
               < pedestrian_add_rate * last.start_time + 1000000
        /\ \/ last.available_after_admission = 0
           \/ last.admitted_after_admission * 1000000
                  >= pedestrian_add_rate * last.start_time
        /\ last.start_time = 0 => last.admitted = <<>>

\* A tick has admitted an agent and left another one waiting.
C4_Witness ==
    /\ IsTick(last)
    /\ pedestrian_add_rate > 0
    /\ last.admitted # <<>>
    /\ last.available_after_admission > 0

\* C5: admission monotonicity.  The admitted count (active + finished) never
\* decreases from one tick to the next, also when agents finish.
C5_AdmittedNeverDecreases ==
    [][Len(active_pedestrians') + Len(finished_pedestrians')
           >= Len(active_pedestrians) + Len(finished_pedestrians)]_vars

\* A tick in which an agent finishes and none is admitted.
C5_Witness ==
    /\ IsTick(last)
    /\ last.arrived # <<>>
    /\ last.admitted = <<>>

Reverse(seq) == [i \in 1..Len(seq) |-> seq[Len(seq) + 1 - i]]
Ascending(ids) == \A i, j \in 1..Len(ids) : i < j => ids[i] < ids[j]
Descending(ids) == \A i, j \in 1..Len(ids) : i < j => ids[i] > ids[j]

C6_Order ==
    IsTick(last') =>
        LET k == Len(last'.admitted)
            n == Len(available_pedestrians)
        IN  /\ k <= n
            \* the k admissions took the successive tails of available
            /\ available_pedestrians' = SubSeq(available_pedestrians, 1, n - k)
            /\ last'.admitted = Reverse(SubSeq(Ids(available_pedestrians), n - k + 1, n))
            \* and each was appended to the end of active
            /\ last'.updated_ids = Ids(active_pedestrians) \o last'.admitted
            \* a pool still in the order of enqueueing is admitted last enqueued first
            /\ Ascending(Ids(available_pedestrians)) => Descending(last'.admitted)

\* C6: admission order.  Every admission removes the agent at the tail of the
\* available pool and appends it to the end of the active pool; without a
\* shuffle agents are admitted in reverse order of enqueueing, and several
\* admissions in one tick take successive tails.
C6_AdmissionOrder == [][C6_Order]_vars

\* One tick has admitted two agents.
C6_Witness ==
    /\ IsTick(last)
    /\ Len(last.admitted) = 2

C7_Time ==
    /\ IsTick(last') => time_elapsed' = time_elapsed + last'.time_scale
    /\ ~IsTick(last') => time_elapsed' = time_elapsed
    /\ time_elapsed' >= time_elapsed

\* C7: each simulate_timestep(dt) increases time_elapsed by exactly dt, once,
\* whatever number of agents is admitted, updated or finished; for dt >= 0 it
\* never decreases, and no other operation changes it.
C7_TimeAdvancesByDt == [][C7_Time]_vars

\* The third one-second tick, with two agents updated.
C7_Witness ==
    /\ IsTick(last)
    /\ last.time_scale = 1000
    /\ time_elapsed = 3000
    /\ Len(last.updated_ids) = 2

C8_Returned ==
    last.op = "simulate_full_return" =>
        /\ available_pedestrians = <<>>
        /\ active_pedestrians = <<>>
        /\ returned = Some(<<time_elapsed, Len(finished_pedestrians), travel_times>>)
        /\ unwrap(returned)[2] = enqueued

C8_Loop ==
    \* inside simulate_full: a tick while a pool is non-empty, else the return
    /\ (full # None /\ (available_pedestrians # <<>> \/ active_pedestrians # <<>>)) =>
           /\ IsTick(last') /\ last'.time_scale = unwrap(full)
           /\ full' = full
    /\ (full # None /\ available_pedestrians = <<>> /\ active_pedestrians = <<>>) =>
           last'.op = "simulate_full_return"

\* C8: simulate_full(dt) executes ticks while the available or the active pool
\* is non-empty and returns only when both are empty (at once if they already
\* are); it returns (time_elapsed, size of finished, all samples so far), and
\* the returned finished count is the number of agents enqueued.
C8_SimulateFull == []C8_Returned /\ [][C8_Loop]_vars

\* simulate_full has returned after walking two agents to their destination.
C8_Witness ==
    /\ last.op = "simulate_full_return"
    /\ enqueued = 2
    /\ time_elapsed > 0

C9_NoAdmission ==
    pedestrian_add_rate = 0 =>
        /\ Len(available_pedestrians) = enqueued
        /\ active_pedestrians = <<>>
        /\ finished_pedestrians = <<>>
        /\ travel_times = <<>>
        \* simulate_full does not return while an agent waits
        /\ enqueued > 0 => returned = None /\ last.op # "simulate_full_return"

C9_Tick ==
    (pedestrian_add_rate = 0 /\ IsTick(last')) =>
        /\ last'.admitted = <<>>
        /\ available_pedestrians' = available_pedestrians

\* C9: with admission rate 0 and a non-empty available pool no tick admits an
\* agent, the available pool keeps its size and simulate_full does not return;
\* the pools stay consistent on the way.
C9_ZeroRate == []C9_NoAdmission /\ [][C9_Tick]_vars

\* simulate_full is still ticking after three seconds with an agent waiting.
C9_Witness ==
    /\ pedestrian_add_rate = 0
    /\ full # None
    /\ available_pedestrians # <<>>
    /\ time_elapsed >= 3000

\* C10: whenever an active agent gets its second timing gate marked during a
\* tick, the scheduler appends exactly one sample for it to travel_times in
\* that tick, with the agent's group and the time of the tick, and appends no
\* sample for any other agent.
C10_SampleAtSecondGate ==
    IsTick(last) =>
        /\ last.emitted = last.second_marked
        /\ Len(last.samples) = Cardinality(last.second_marked)
        /\ \A k \in 1..Len(last.samples) : last.samples[k][3] = last.start_time

\* The walker with agent id among peds.
WalkerOf(peds, id) == peds[CHOOSE i \in 1..Len(peds) : peds[i].id = id]

C11_Timer ==
    IsTick(last') =>
        \A id \in Range(last'.updated_ids) :
            LET before == WalkerOf(available_pedestrians \o active_pedestrians, id)
                after == WalkerOf(active_pedestrians' \o finished_pedestrians', id)
            IN  \* the timer starts at 0 in the tick of the first crossing
                /\ (~is_some(before.timing_boundary_elapsed)
                        /\ is_some(after.timing_boundary_elapsed)) =>
                       unwrap(after.timing_boundary_elapsed) = 0
                \* and advances by dt per tick while it runs
                /\ (is_some(before.timing_boundary_elapsed)
                        /\ is_some(after.timing_boundary_elapsed)) =>
                       unwrap(after.timing_boundary_elapsed)
                           = unwrap(before.timing_boundary_elapsed) + last'.time_scale

\* C11: the per-agent timer starts at 0 in the tick in which the agent's first
\* gate is marked and advances by exactly dt per tick while it runs, so that
\* the duration of a sample is the simulated time between the two crossings.
C11_TimerAdvancesByDt == [][C11_Timer]_vars

\* The point of the wall get_normal_vector measures p from.
ClosestOf(wall, p) ==
    <<p[1] - get_normal_vector(wall, p).normal[1],
      p[2] - get_normal_vector(wall, p).normal[2]>>

\* p and q are the same point up to the resolution of the fixed-point
\* arithmetic (1 mm per coordinate).
Near(p, q) == Abs(p[1] - q[1]) <= 1 /\ Abs(p[2] - q[2]) <= 1

SegmentPoints(wall) ==
    {<<wall.x1 + ((wall.x2 - wall.x1) \div 20) * j,
       wall.y1 + ((wall.y2 - wall.y1) \div 20) * j>> : j \in 0..20}

DistSq(p, q) == (p[1] - q[1]) * (p[1] - q[1]) + (p[2] - q[2]) * (p[2] - q[2])

\* C13: get_normal_vector(P) returns (dist, n) with n = P - C and dist = |n|,
\* C being the point of the segment nearest to P: the orthogonal projection of
\* P when the projection parameter lies strictly between 0 and 1, otherwise
\* the nearer end; no point of the segment is closer to P than dist.  For the
\* segment (0,0)-(10,0), P = (5,3) gives (3, (0,3)) and P = (-5,0) gives
\* (5, (-5,0)).
C13_NormalVector ==
    last.op = "get_normal_vector" =>
        LET a == <<last.wall.x1, last.wall.y1>>
            b == <<last.wall.x2, last.wall.y2>>
            ab == <<b[1] - a[1], b[2] - a[2]>>
            n == last.result.normal
            c == <<last.p[1] - n[1], last.p[2] - n[2]>>
            \* the projection parameter, times |ab|^2
            proj == (last.p[1] - a[1]) * ab[1] + (last.p[2] - a[2]) * ab[2]
        IN  /\ last.result.dist2 = n[1] * n[1] + n[2] * n[2]
            /\ Dist(last.result) * Dist(last.result) <= last.result.dist2
            /\ (Dist(last.result) + 1) * (Dist(last.result) + 1) > last.result.dist2
            \* strictly inside: C is on the segment and n is orthogonal to it
            /\ (proj > 0 /\ proj < DistSq(a, b)) =>
                   /\ (c[1] - a[1]) * ab[2] = (c[2] - a[2]) * ab[1]
                   /\ n[1] * ab[1] + n[2] * ab[2] = 0
            \* otherwise the nearer end
            /\ proj <= 0 => c = a
            /\ proj >= DistSq(a, b) => c = b
            /\ \A q \in SegmentPoints(last.wall) : DistSq(last.p, q) >= last.result.dist2
            /\ (last.wall = Wall(0, 0, 10000, 0) /\ last.p = <<5000, 3000>>) =>
                   Dist(last.result) = 3000 /\ n = <<0, 3000>>
            /\ (last.wall = Wall(0, 0, 10000, 0) /\ last.p = <<0 - 5000, 0>>) =>
                   Dist(last.result) = 5000 /\ n = <<0 - 5000, 0>>

\* The normal vector from the segment (0,0)-(10,0) to (5,3) has been computed.
C13_Witness ==
    /\ last.op = "get_normal_vector"
    /\ last.wall = Wall(0, 0, 10000, 0)
    /\ last.p = <<5000, 3000>>
    /\ last.result.normal = <<0, 3000>>

\* p lies on the segment, its ends included.
OnSegment(wall, p) ==
    LET ab == <<wall.x2 - wall.x1, wall.y2 - wall.y1>>
        ap == <<p[1] - wall.x1, p[2] - wall.y1>>
        proj == ap[1] * ab[1] + ap[2] * ab[2]
    IN  /\ ap[1] * ab[2] = ap[2] * ab[1]
        /\ 0 <= proj
        /\ proj <= ab[1] * ab[1] + ab[2] * ab[2]

\* The environment with its first n walls only.
FirstWalls(env, n) == [env EXCEPT !.boundaries = SubSeq(@, 1, n)]

\* C14: when P lies exactly on the segment, ends included, get_normal_vector
\* returns distance 0 and the zero vector; wall collision resolution then
\* adjusts neither position nor heading for that wall and divides nothing by
\* the zero distance: the walker leaves the wall's iteration as it entered it,
\* with defined coordinates and heading.
C14_PointOnWall ==
    /\ (last.op = "get_normal_vector" /\ OnSegment(last.wall, last.p)) =>
           /\ last.result = [dist2 |-> 0, normal |-> <<0, 0>>]
           /\ Dist(last.result) = 0
    /\ last.op = "resolve_wall_collisions" =>
           LET w0 == last.before
               w1 == active_pedestrians[1]
               n == Len(area.boundaries)
               \* the walker when the loop reaches the last wall
               entering == resolve_wall_collisions(w0, FirstWalls(area, n - 1), last.time_scale)
           IN  OnSegment(area.boundaries[n], <<entering.x, entering.y>>) =>
                   /\ w1 = entering
                   /\ n = 1 => w1 = w0
                   /\ w1.x # NaN /\ w1.y # NaN /\ w1.facing_direction # NaN

\* A walker standing on the only wall, facing a quarter turn from the x axis,
\* has gone through wall collision resolution with dt = 1 s and is unchanged.
C14_Witness ==
    /\ last.op = "resolve_wall_collisions"
    /\ Len(area.boundaries) = 1
    /\ OnSegment(area.boundaries[1], <<last.before.x, last.before.y>>)
    /\ last.before.facing_direction = PI \div 2
    /\ last.time_scale = 1000
    /\ active_pedestrians[1] = last.before

\* C15: a wall or timing gate whose two end points are equal is rejected when
\* the scenario is built: add_wall and add_timing_boundary with p1 = p2 add
\* nothing, so every wall and gate of the environment has distinct end points
\* and get_normal_vector is never evaluated on a segment of length zero, its
\* result never resting on a division by a zero length.
C15_DegenerateRejected ==
    /\ \A wall \in Range(area.boundaries) \cup Range(area.timing_boundaries) :
           wall.x1 # wall.x2 \/ wall.y1 # wall.y2
    /\ last.op = "get_normal_vector" =>
           /\ last.wall.x1 # last.wall.x2 \/ last.wall.y1 # last.wall.y2
           /\ last.result.dist2 # NaN

\* The walker's group and destination index name a waypoint of the environment.
WaypointInRange(w, env) ==
    /\ w.group \in 1..Len(env.end_positions)
    /\ w.target_location \in 1..Len(env.end_positions[w.group])

C16_Pooled ==
    \A w \in Range(available_pedestrians) \cup Range(active_pedestrians)
             \cup Range(finished_pedestrians) : WaypointInRange(w, area)

C16_Call ==
    /\ last'.op = "panic" =>
           /\ last'.at = "add_pedestrian"
           /\ UNCHANGED <<available_pedestrians, active_pedestrians, finished_pedestrians>>
    /\ (Constructing /\ last'.op = "add_pedestrian") =>
           /\ Len(available_pedestrians') = Len(available_pedestrians) + 1
           /\ WaypointInRange(available_pedestrians'[Len(available_pedestrians')], area)
    \* a tick looks up the destination of every walker it updates
    /\ IsTick(last') =>
           \A id \in Range(last'.updated_ids) :
               \E w \in Range(active_pedestrians) \cup Range(available_pedestrians) :
                   w.id = id /\ WaypointInRange(w, area)

\* C16: add_pedestrian with a group, start index or end index out of range for
\* the environment fails at that call and adds no agent to any pool; every
\* agent in every pool therefore has a group and a destination index in range,
\* and every waypoint lookup of a tick is defined.
C16_OutOfRangeFailsAtCall == []C16_Pooled /\ [][C16_Call]_vars

\* add_pedestrian was called with an end index the group does not have, after
\* one agent had been added: the call failed and the pool still holds that
\* one agent.
C16_Witness ==
    /\ last.op = "panic"
    /\ last.input[3] = 2
    /\ Len(available_pedestrians) = 1

C17_Shared ==
    \A w \in Range(available_pedestrians) \cup Range(active_pedestrians)
             \cup Range(finished_pedestrians) : w.environment = area

C17_Frame == area' = area

\* C17: once the scheduler is constructed no operation of the scheduler or of
\* an agent changes the environment's walls, timing gates or waypoint lists,
\* and the scheduler and every agent read that same environment for the whole
\* run.
C17_EnvironmentImmutable == []C17_Shared /\ [][C17_Frame]_vars

\* After a tick that moved an agent, the scheduler and the agents still hold
\* the corridor the run was constructed with.
C17_Witness ==
    /\ IsTick(last)
    /\ last.time_scale > 0
    /\ Len(last.updated_ids) > 0
    /\ area = Corridor
    /\ \A w \in Range(active_pedestrians) \cup Range(finished_pedestrians) :
           w.environment = Corridor
    /\ Len(finished_pedestrians) > 0

\* The walkers of the available pool the step has appended.
Appended == SubSeq(available_pedestrians', Len(available_pedestrians) + 1, Len(available_pedestrians'))

C18_Step ==
    /\ last'.op \in {"add_pedestrian", "add_pedestrian_set", "randomise_pedestrian_order"} =>
           UNCHANGED <<active_pedestrians, finished_pedestrians, time_elapsed, travel_times>>
    /\ last'.op \in {"add_pedestrian", "add_pedestrian_set"} =>
           SubSeq(available_pedestrians', 1, Len(available_pedestrians)) = available_pedestrians
    /\ last'.op = "add_pedestrian" => Len(Appended) = 1
    /\ last'.op = "add_pedestrian_set" =>
           /\ Len(Appended) = last'.number
           /\ \A w \in Range(Appended) :
                  /\ w.group = last'.group
                  /\ w.etiquette = last'.etiquette
                  /\ <<w.x, w.y>> \in Range(area.start_positions[last'.group])
                  /\ w.target_location \in 1..Len(area.end_positions[last'.group])
    /\ last'.op = "randomise_pedestrian_order" =>
           /\ Len(available_pedestrians') = Len(available_pedestrians)
           /\ \A w \in Range(available_pedestrians) \cup Range(available_pedestrians') :
                  Cardinality({i \in 1..Len(available_pedestrians') : available_pedestrians'[i] = w})
                  = Cardinality({i \in 1..Len(available_pedestrians) : available_pedestrians[i] = w})

\* C18: the operations of scenario construction change the available pool
\* only: add_pedestrian appends exactly one agent, add_pedestrian_set(count,
\* group, etiquette) exactly count agents of that group and etiquette with
\* start and end inside the group's waypoint lists, randomise_pedestrian_order
\* permutes the available pool; the active pool, the finished pool,
\* time_elapsed and the samples stay as they are.
C18_ConstructionFrame == [][C18_Step]_vars

\* A shuffle has turned a pool of two agents round.
C18_Witness ==
    /\ last.op = "randomise_pedestrian_order"
    /\ Len(available_pedestrians) = 2
    /\ available_pedestrians[1].id = 2
    /\ available_pedestrians[2].id = 1

\* (x, y, facing_direction) of the agent id as the step finds it, in the
\* available or in the active pool.
PositionBefore(id) ==
    LET w == WalkerOf(available_pedestrians \o active_pedestrians, id)
    IN  <<w.x, w.y, w.facing_direction>>

C19_Step ==
    IsTick(last') =>
        LET n == Len(last'.updated_ids)
            snapshot == [j \in 1..n |-> PositionBefore(last'.updated_ids[j])]
        IN  /\ Len(last'.other_pedestrians) = n
            /\ \A i \in 1..n :
                   last'.other_pedestrians[i] =
                       <<SubSeq(snapshot, 1, i - 1), SubSeq(snapshot, i + 1, n)>>

\* C19: within one tick the neighbour view of the agent at index i is the
\* snapshot of all other active agents, its own entry left out and every
\* other agent in it once, and the (x, y, heading) it holds for an agent j is
\* j's value after admission and before any update of that tick, for j
\* earlier and for j later than i in pool order.
C19_ConsistentSnapshot == [][C19_Step]_vars

\* A tick has updated two agents and moved the first of them: the second
\* read the first one's position of before the tick.
C19_Witness ==
    /\ IsTick(last)
    /\ Len(last.updated_ids) = 2
    /\ Len(active_pedestrians) = 2
    /\ last.time_scale > 0
    /\ active_pedestrians[1].x # NaN
    /\ last.other_pedestrians[2][1][1][1] # active_pedestrians[1].x

RECURSIVE Without(_, _)
Without(seq, S) ==
    IF seq = <<>> THEN <<>>
    ELSE IF Head(seq) \in S THEN Without(Tail(seq), S)
    ELSE <<Head(seq)>> \o Without(Tail(seq), S)

\* C21: the arrival check at the end of a tick tests every active agent once,
\* a removal neither skipping the agent after it nor testing one twice: after
\* every tick no agent left active is within the arrival radius of its
\* destination, every agent the tick moved to finished is within it, and the
\* agents left active are those the tick updated, less the arrived ones, in
\* the order they had.
C21_ArrivalCheckComplete ==
    IsTick(last) =>
        /\ \A i \in 1..Len(active_pedestrians) : ~WithinArrivalRadius(active_pedestrians[i])
        /\ \A i \in 1..Len(last.arrived) :
               /\ Len(finished_pedestrians) >= Len(last.arrived)
               /\ finished_pedestrians[Len(finished_pedestrians) - Len(last.arrived) + i].id
                      = last.arrived[i]
               /\ WithinArrivalRadius(
                      finished_pedestrians[Len(finished_pedestrians) - Len(last.arrived) + i])
        /\ Ids(active_pedestrians) = Without(last.updated_ids, Range(last.arrived))
        /\ last.arrived = Without(last.updated_ids, IdSet(active_pedestrians))
        /\ Len(active_pedestrians) + Len(last.arrived) = Len(last.updated_ids)

\* A tick has moved two agents, neighbours in the active pool, to finished.
C21_Witness ==
    /\ IsTick(last)
    /\ Len(last.updated_ids) = 2
    /\ last.arrived = last.updated_ids
    /\ active_pedestrians = <<>>

\* C22: once a measurement has been reported for an agent, the second of its
\* gates marked, the agent's crossing state is reset: every crossed flag is
\* false and the timer is absent, so that two gates marked again give a
\* further sample.
C22_ResetAfterSample ==
    IsTick(last) =>
        \A id \in last.second_marked :
            LET w == WalkerOf(active_pedestrians \o finished_pedestrians, id)
            IN  /\ w.timing_boundary_elapsed = None
                /\ \A g \in 1..Len(w.timing_boundary_states) : ~w.timing_boundary_states[g]

\* The distance from p to a gate across the corridor (a vertical segment) is
\* at most the body radius, p being level with the gate.
NearGate(gate, p) ==
    /\ gate.x1 = gate.x2
    /\ p[2] >= Min(gate.y1, gate.y2) /\ p[2] <= Max(gate.y1, gate.y2)
    /\ Abs(p[1] - gate.x1) <= PEDESTRIAN_RADIUS

C24_EveryWallProcessed ==
    last.op = "resolve_wall_collisions" =>
        LET p0 == <<last.before.x, last.before.y>>
            p1 == <<active_pedestrians[1].x, active_pedestrians[1].y>>
            walls == 1..Len(area.boundaries)
        IN  \A on \in walls, other \in walls :
                (/\ OnSegment(area.boundaries[on], p0)
                 /\ get_normal_vector(area.boundaries[other], p0).dist2 > 0
                 /\ Dist(get_normal_vector(area.boundaries[other], p0)) < PEDESTRIAN_RADIUS)
                => Dist(get_normal_vector(area.boundaries[other], p1)) >= PEDESTRIAN_RADIUS - 1

\* C25: the reaction to neighbours is total on exact coincidence: when the
\* snapshot position of another active agent equals the agent's own position,
\* the agent's position, heading and speed after the tick are defined finite
\* values, nothing being divided by the zero distance.
C25_CoincidenceDefined ==
    IsTick(last) =>
        \A i, j \in 1..Len(last.updated_ids) :
            (/\ i # j
             /\ last.pedestrian_positions[i][1] = last.pedestrian_positions[j][1]
             /\ last.pedestrian_positions[i][2] = last.pedestrian_positions[j][2])
            => LET w == WalkerOf(active_pedestrians \o finished_pedestrians,
                                 last.updated_ids[i])
               IN  /\ w.x # NaN
                   /\ w.y # NaN
                   /\ w.facing_direction # NaN
                   /\ w.inst_speed # NaN

\* C26: speed bounds.  Speed relaxation gives min(target speed, previous
\* speed + accel * dt), and no later stage of the tick (the decelerations of
\* the reaction to neighbours, the noise) leaves the speed negative: the
\* speed the position is integrated with, which is the speed the agent holds
\* after the tick, is >= 0 in every tick.
C26_SpeedNeverNegative ==
    IsTick(last) =>
        \A id \in Range(last.updated_ids) :
            LET w == WalkerOf(active_pedestrians \o finished_pedestrians, id)
            IN  w.inst_speed # NaN /\ w.inst_speed >= 0


\* The signed difference a - b of two angles, wrapped to [-PI, PI).
AngleDiff(a, b) == Rem(a - b + TAU + TAU + PI, TAU) - PI

\* C27: goal alignment.  The alignment with the destination turns the heading
\* toward the bearing of the destination and never past it: after the step
\* the absolute angular difference to the bearing is not larger than before
\* and its sign has not flipped, for every time_scale passed.
C27_NeverPastBearing ==
    last.op = "nudge_angle" =>
        LET before == AngleDiff(last.before.facing_direction, last.target_angle)
            after == AngleDiff(active_pedestrians[1].facing_direction, last.target_angle)
        IN  Abs(after) <= Abs(before) /\ before * after >= 0


\* The neighbour the reaction was computed for, its distance from the walker
\* before the reaction and the direction it was in.
C28_Neighbour == last.other_pedestrians[1]
C28_Dist == NeighbourDist(last.before, C28_Neighbour[1], C28_Neighbour[2])
C28_Angle == Bearing(last.before, C28_Neighbour[1], C28_Neighbour[2])

C29_HeadingInRange ==
    last.op \in {"placed", "walker_simulate_timestep"} =>
        /\ active_pedestrians[1].facing_direction # NaN
        /\ active_pedestrians[1].facing_direction >= 0
        /\ active_pedestrians[1].facing_direction < TAU


\* The number of walkers admitted so far.
AdmittedCount == Len(active_pedestrians) + Len(finished_pedestrians)

\* Walkers wait in the available pool of a simulation that admits.
C30_Waiting ==
    /\ pedestrian_add_rate > 0
    /\ Len(available_pedestrians) > 0
    /\ last.op # "panic"

\* The available pool has been emptied (or the construction has panicked
\* before the first tick and no tick is executed).
C30_AllAdmitted == Len(available_pedestrians) = 0 \/ last.op = "panic"

\* A tick that starts at a time exceeding k / rate, with more than k walkers
\* enqueued, ends with more than k walkers admitted.
C30_Step ==
    (IsTick(last') /\ pedestrian_add_rate > 0) =>
        \A k \in 0..(enqueued - 1) :
            time_elapsed * pedestrian_add_rate > k * 1000000 =>
                Len(active_pedestrians') + Len(finished_pedestrians') > k

\* C30: admission liveness.  With rate r > 0 and ticks of dt > 0 that keep
\* being executed, every walker of the available pool is eventually
\* admitted; and the admission that raises the admitted count from k to
\* k + 1 happens no later than the first tick whose starting elapsed time
\* exceeds k / r, whether earlier walkers are still active or have finished.
C30_AdmissionLiveness == (C30_Waiting ~> C30_AllAdmitted) /\ [][C30_Step]_vars

\* The tick starting at 2 s of a simulation of rate 1 per second admits the
\* second walker while the first one is walking, and empties the pool.
C30_Witness ==
    /\ IsTick(last)
    /\ pedestrian_add_rate = 1000
    /\ last.start_time = 2000
    /\ last.time_scale > 0
    /\ Len(last.admitted) = 1
    /\ AdmittedCount = 2
    /\ Len(available_pedestrians) = 0

=============================================================================
